---- MODULE Spec2Model ----
(***************************************************************************)
(* Batch fermentation simulator (fermantation-unit-test-7.py).             *)
(*                                                                         *)
(* The script integrates the five fermentation ODEs with                   *)
(* solve_ivp(method='RK45', t_eval=...), extracts the sampled columns,     *)
(* writes them to a CSV file, plots them and runs five unit tests on them. *)
(*                                                                         *)
(* Numbers.  The program computes in binary floating point.  Here every    *)
(* quantity is a fixed-point integer: concentrations in units of 1/CScale  *)
(* mol/L, temperature in units of 1/TScale, pH in units of 1/PHScale,      *)
(* time in whole seconds.                                                  *)
(* Products are rounded toward zero (sign-symmetric, as float rounding     *)
(* is).  A result whose magnitude exceeds FMax is not representable; it    *)
(* becomes NaN, the one non-finite value, which every later operation      *)
(* propagates.  FMax stands for the largest finite double.                 *)
(*                                                                         *)
(* Step sizes.  The RK45 controller picks each step size from its error    *)
(* estimate with floating-point powers; here the proposed step size is     *)
(* any member of StepSizes, and a proposal is taken only when the          *)
(* Dormand-Prince error norm (rtol = 1e-3, atol = 1e-6, the defaults the   *)
(* call leaves in place) is below 1, as in the solver.                     *)
(***************************************************************************)
EXTENDS Integers, Sequences, FiniteSets, TLC

VARIABLES par, y0, N, pc, t, y, nsteps, samples, status, odes_called,
          columns, csv, plotted, tests

vars == <<par, y0, N, pc, t, y, nsteps, samples, status, odes_called,
          columns, csv, plotted, tests>>

-----------------------------------------------------------------------------
(* Fixed-point arithmetic                                                    *)

CScale == 10^9          \* units per mol/L (sugar, ethanol, CO2)
TScale == 2 * 10^7      \* units per degree Celsius
PHScale == 10^8         \* units per pH unit
FMax   == 10^9          \* largest representable magnitude
NaN    == 2 * 10^9      \* the non-finite value
PDen   == 1000          \* rate parameters are given in thousandths
RDen   == 1000          \* error ratios are computed in thousandths
LIMB   == 1024          \* limb size of the two-limb multiplication

Abs(x) == IF x < 0 THEN -x ELSE x
Max(a, b) == IF a >= b THEN a ELSE b
Min(a, b) == IF a <= b THEN a ELSE b

\* floor(a*m/d) for a, m >= 0, d > 0, computed limb by limb so that no
\* intermediate exceeds 31 bits; NaN when the result exceeds FMax.
MulDiv(a, m, d) ==
    LET q  == a \div d
        r  == a % d
    IN  IF q > FMax \div m THEN NaN
        ELSE LET m1 == m \div LIMB
                 m0 == m % LIMB
                 u  == r * m1
                 qu == u \div d
                 ru == u % d
                 v  == q * m + qu * LIMB + ((ru * LIMB + r * m0) \div d)
             IN  IF v > FMax THEN NaN ELSE v

\* x * n / d, rounded toward zero
Mul(x, n, d) ==
    IF x = NaN THEN NaN
    ELSE IF n = 0 \/ x = 0 THEN 0
    ELSE LET v == MulDiv(Abs(x), Abs(n), d)
         IN  IF v = NaN THEN NaN
             ELSE IF (x > 0) = (n > 0) THEN v ELSE -v

Add(a, b) ==
    IF a = NaN \/ b = NaN THEN NaN
    ELSE IF Abs(a + b) > FMax THEN NaN ELSE a + b

Neg(a) == IF a = NaN THEN NaN ELSE -a

Finite(v) == \A i \in 1..5 : v[i] # NaN

VAdd(a, b) ==
    <<Add(a[1], b[1]), Add(a[2], b[2]), Add(a[3], b[3]), Add(a[4], b[4]), Add(a[5], b[5])>>
VScale(v, n, d) ==
    <<Mul(v[1], n, d), Mul(v[2], n, d), Mul(v[3], n, d), Mul(v[4], n, d), Mul(v[5], n, d)>>

\* np.dot(K[:s].T, co): sum over the stages j of K[j] * co[j], per component
RECURSIVE DotTo(_, _, _, _)
DotTo(K, co, i, j) ==
    IF j = 0 THEN 0
    ELSE Add(DotTo(K, co, i, j - 1), Mul(K[j][i], co[j][1], co[j][2]))

VDot(K, co) ==
    <<DotTo(K, co, 1, Len(co)), DotTo(K, co, 2, Len(co)), DotTo(K, co, 3, Len(co)),
      DotTo(K, co, 4, Len(co)), DotTo(K, co, 5, Len(co))>>

-----------------------------------------------------------------------------
(* Module parameters (lines 8-21) and the inputs of the run                 *)

Shipped ==
    [K_fermentation |-> 100, Y_ethanol |-> 500, Y_CO2 |-> 500,
     m |-> 1, c_p |-> 4184, Q_fermentation |-> 500, Q_cooling |-> 500,
     K_pH |-> 10, buffer_capacity |-> 100]

\* One-at-a-time departures from the shipped parameters, among them the
\* values section 7 of the design calls invalid.
ParamSets ==
    {Shipped}
    \cup {[Shipped EXCEPT !.K_fermentation = v] : v \in {-100, 0, 500}}
    \cup {[Shipped EXCEPT !.Y_ethanol = v] : v \in {-500, 300}}
    \cup {[Shipped EXCEPT !.m = v] : v \in {0}}
    \cup {[Shipped EXCEPT !.c_p = v] : v \in {-4184}}
    \cup {[Shipped EXCEPT !.Q_fermentation = v] : v \in {4684, 17236}}
    \cup {[Shipped EXCEPT !.K_pH = v] : v \in {5000}}
    \cup {[Shipped EXCEPT !.buffer_capacity = v] : v \in {-100, 0}}

\* Initial sugar concentrations, in units of 1/CScale mol/L
SugarSet == {-447, 0, 447, 10000, 50000000}
\* Initial pH values, in units of 1/PHScale
pHSet == {4 * PHScale, 4 * PHScale + 1000, 5 * PHScale}
T_0 == 25 * TScale

\* The inputs of a run: every parameter set with the default initial state,
\* every initial state with the shipped parameters, the dilute initial states
\* with a fast pH decay, and a hot start with a heat surplus.
DefaultY0 == <<50000000, 0, 0, T_0, 5 * PHScale>>
Y0Set == {<<s, 0, 0, T_0, ph>> : s \in SugarSet, ph \in pHSet}
HotY0 == <<50000000, 0, 0, 45 * TScale, 5 * PHScale>>
DiluteY0Set == {v \in Y0Set : v[1] <= 10000}
Inputs ==
    (ParamSets \X {DefaultY0})
    \cup ({Shipped} \X Y0Set)
    \cup ({[Shipped EXCEPT !.K_pH = 500000]} \X DiluteY0Set)
    \cup {<<[Shipped EXCEPT !.Q_fermentation = 17236], HotY0>>}

t_span_end == 60        \* end of the time span, seconds
MaxN == 4               \* largest number of sample times tried
MaxSteps == 3           \* largest number of accepted steps in a run
StepSizes == {1, 20, 40}
MinStep == 1            \* smallest step size the solver may fall back to

\* np.linspace(0, t_span_end, n)[i-1], i = 1..n
t_eval(n, i) == IF i = n THEN t_span_end ELSE ((i - 1) * t_span_end) \div (n - 1)

-----------------------------------------------------------------------------
(* fermentation_odes (lines 23-39); y = [C_sugar, C_ethanol, C_CO2, T, pH]   *)

dC_sugar_dt(p, C_sugar) == Neg(Mul(C_sugar, p.K_fermentation, PDen))
dC_ethanol_dt(p, C_sugar) == Mul(C_sugar, p.Y_ethanol * p.K_fermentation, PDen * PDen)
\* Mutation of dC_CO2_dt: the CO2 rate written with the ethanol yield
dC_CO2_dt_ethanol_yield(p, C_sugar) ==
    Mul(C_sugar, p.Y_ethanol * p.K_fermentation, PDen * PDen)
dC_CO2_dt(p, C_sugar) == Mul(C_sugar, p.Y_CO2 * p.K_fermentation, PDen * PDen)

\* Mutation of dT_dt: the cooling added to the heat instead of subtracted
dT_dt_cooling_added(p, yy) ==
    LET mc == p.m * p.c_p
        dq == p.Q_fermentation + p.Q_cooling
    IN  Mul(TScale, IF mc > 0 THEN dq ELSE -dq, Abs(mc))

\* (Q_fermentation - Q_cooling) / (m * c_p); the caller has excluded m * c_p = 0
dT_dt(p, yy) ==
    LET mc == p.m * p.c_p
        dq == p.Q_fermentation - p.Q_cooling
    IN  Mul(TScale, IF mc > 0 THEN dq ELSE -dq, Abs(mc))

\* Mutation of dpH_dt: the floor test written pH >= 4
dpH_dt_floor_inclusive(p, yy) ==
    IF yy[5] >= 4 * PHScale
    THEN LET a == Neg(Mul(yy[1], p.K_pH, PDen * (CScale \div PHScale)))
             b == -(p.buffer_capacity * (PHScale \div PDen))
         IN  IF a = NaN THEN NaN ELSE Max(a, b)
    ELSE 0

\* max(-K_pH * C_sugar, -buffer_capacity) if pH > 4 else 0
dpH_dt(p, yy) ==
    IF yy[5] > 4 * PHScale
    THEN LET a == Neg(Mul(yy[1], p.K_pH, PDen * (CScale \div PHScale)))
             b == -(p.buffer_capacity * (PHScale \div PDen))
         IN  IF a = NaN THEN NaN ELSE Max(a, b)
    ELSE 0

fermentation_odes(p, yy) ==
    IF ~Finite(yy) THEN <<NaN, NaN, NaN, NaN, NaN>>
    ELSE <<dC_sugar_dt(p, yy[1]), dC_ethanol_dt(p, yy[1]), dC_CO2_dt(p, yy[1]),
           dT_dt(p, yy), dpH_dt(p, yy)>>

\* m * c_p = 0 makes line 34 raise ZeroDivisionError
DivisionByZero(p) == p.m * p.c_p = 0

-----------------------------------------------------------------------------
(* solve_ivp(..., method='RK45', t_eval=t_eval) (line 49)                    *)

\* Dormand-Prince tableau: stage rows A, weights B, error weights E
A2 == << <<1, 5>> >>
A3 == << <<3, 40>>, <<9, 40>> >>
A4 == << <<44, 45>>, <<-56, 15>>, <<32, 9>> >>
A5 == << <<19372, 6561>>, <<-25360, 2187>>, <<64448, 6561>>, <<-212, 729>> >>
A6 == << <<9017, 3168>>, <<-355, 33>>, <<46732, 5247>>, <<49, 176>>, <<-5103, 18656>> >>
B  == << <<35, 384>>, <<0, 1>>, <<500, 1113>>, <<125, 192>>, <<-2187, 6784>>, <<11, 84>> >>
E  == << <<-71, 57600>>, <<0, 1>>, <<71, 16695>>, <<-71, 1920>>, <<17253, 339200>>,
         <<-22, 525>>, <<1, 40>> >>

\* Columns of the dense-output matrix P (7 x 4), each entry the closest
\* fraction with numerator and denominator below 2^20
P1 == << <<1, 1>>, <<0, 1>>, <<0, 1>>, <<0, 1>>, <<0, 1>>, <<0, 1>>, <<0, 1>> >>
P2 == << <<-939273, 329156>>, <<0, 1>>, <<385907, 95922>>, <<-221477, 59339>>,
         <<753731, 295025>>, <<-964197, 701528>>, <<588929, 425998>> >>
P3 == << <<969218, 315527>>, <<0, 1>>, <<-492809, 78858>>, <<889805, 88371>>,
         <<-583951, 91255>>, <<740357, 226225>>, <<-801928, 212999>> >>
P4 == << <<-330623, 293361>>, <<0, 1>>, <<798245, 298362>>, <<-613963, 107987>>,
         <<886731, 251774>>, <<-592937, 335508>>, <<1014927, 425998>> >>

\* rk_step: the six stages, the new value, the derivative there, the error
ARow(s) == CASE s = 2 -> A2 [] s = 3 -> A3 [] s = 4 -> A4 [] s = 5 -> A5 [] s = 6 -> A6

Stage(p, yy, K, a, h) == fermentation_odes(p, VAdd(yy, VScale(VDot(K, a), h, 1)))

\* K[0] = f(t, y); K[s] = fun(t + c*h, y + (K[:s].T @ a[:s]) * h), s = 1..5
RECURSIVE Stages(_, _, _, _)
Stages(p, yy, h, K) ==
    IF Len(K) = 6 THEN K
    ELSE Stages(p, yy, h, Append(K, Stage(p, yy, K, ARow(Len(K) + 1), h)))

\* y_new = y + h * (K[:-1].T @ B); f_new = fun(t + h, y_new); K[-1] = f_new
rk_result(p, yn, K6) ==
    [y_new |-> yn, K |-> Append(K6, fermentation_odes(p, yn))]

rk_new(p, yy, h, K6) == rk_result(p, VAdd(yy, VScale(VDot(K6, B), h, 1)), K6)

\* the error estimate (K.T @ E) * h of a step
rk_err(r, h) == VScale(VDot(r.K, E), h, 1)

rk_step(p, yy, h) == rk_new(p, yy, h, Stages(p, yy, h, <<fermentation_odes(p, yy)>>))

UnitsOf(i) == IF i <= 3 THEN CScale ELSE IF i = 4 THEN TScale ELSE PHScale
atol(i) == UnitsOf(i) \div 10^6

\* err[i] / (atol + max(|y[i]|, |y_new[i]|) * rtol), in units of 1/RDen
ErrRatio(yy, yn, err, i) ==
    Mul(Abs(err[i]), RDen, atol(i) + Mul(Max(Abs(yy[i]), Abs(yn[i])), 1, 1000))

\* error_norm < 1, error_norm the root mean square of the five ratios
norm_below_1(e) ==
    /\ \A i \in 1..5 : e[i] # NaN /\ e[i] < 3 * RDen
    /\ e[1]*e[1] + e[2]*e[2] + e[3]*e[3] + e[4]*e[4] + e[5]*e[5] < 5 * RDen * RDen

accepted_with(yy, yn, err) ==
    /\ Finite(yn)
    /\ Finite(err)
    /\ norm_below_1(<<ErrRatio(yy, yn, err, 1), ErrRatio(yy, yn, err, 2),
                      ErrRatio(yy, yn, err, 3), ErrRatio(yy, yn, err, 4),
                      ErrRatio(yy, yn, err, 5)>>)

step_accepted(yy, r, h) == accepted_with(yy, r.y_new, rk_err(r, h))

\* a step whose result or error estimate is not finite
step_non_finite(r, h) == ~(Finite(r.y_new) /\ Finite(rk_err(r, h)))

\* Dense output of the step from t_old to t_old + h at x = xn/h:
\* y_old + h * sum_c Q[c] * x^c, with Q = K.T @ P
RECURSIVE Pow(_, _, _, _)
Pow(v, xn, xd, c) == IF c = 0 THEN v ELSE Pow(Mul(v, xn, xd), xn, xd, c - 1)

dense_at(yi, q1, q2, q3, q4, h, xn) ==
    Add(yi, Mul(Add(Add(Add(Pow(q1, xn, h, 1), Pow(q2, xn, h, 2)), Pow(q3, xn, h, 3)),
                    Pow(q4, xn, h, 4)), h, 1))

dense_Q(yy, Q1, Q2, Q3, Q4, h, xn) ==
    <<dense_at(yy[1], Q1[1], Q2[1], Q3[1], Q4[1], h, xn),
      dense_at(yy[2], Q1[2], Q2[2], Q3[2], Q4[2], h, xn),
      dense_at(yy[3], Q1[3], Q2[3], Q3[3], Q4[3], h, xn),
      dense_at(yy[4], Q1[4], Q2[4], Q3[4], Q4[4], h, xn),
      dense_at(yy[5], Q1[5], Q2[5], Q3[5], Q4[5], h, xn)>>

dense_output(yy, K, h, xn) ==
    dense_Q(yy, VDot(K, P1), VDot(K, P2), VDot(K, P3), VDot(K, P4), h, xn)

\* The sample times in (t_old, t_new], and 0 with the first step
RECURSIVE sample_step(_, _, _, _, _, _, _)
sample_step(n, i, t_old, t_new, yy, K, acc) ==
    IF i > n \/ t_eval(n, i) > t_new THEN acc
    ELSE sample_step(n, i + 1, t_old, t_new, yy, K,
                     Append(acc, [time |-> t_eval(n, i),
                                  y |-> dense_output(yy, K, t_new - t_old,
                                                     t_eval(n, i) - t_old)]))

-----------------------------------------------------------------------------
(* The run of the script                                                     *)

Init ==
    /\ \E in \in Inputs : par = in[1] /\ y0 = in[2]
    /\ N \in 2..MaxN
    /\ pc = "construct"
    /\ t = 0
    /\ y = y0
    /\ nsteps = 0
    /\ samples = << >>
    /\ status = "running"
    /\ odes_called = FALSE
    /\ columns = << >>
    /\ csv = << >>
    /\ plotted = FALSE
    /\ tests = << >>

\* solve_ivp builds the solver, which evaluates fun(t0, y0) at once; nothing
\* looks at the parameters or at y0 before that.
Construct ==
    /\ pc = "construct"
    /\ odes_called' = TRUE
    /\ pc' = IF DivisionByZero(par) THEN "ZeroDivisionError" ELSE "stepping"
    /\ UNCHANGED <<par, y0, N, t, y, nsteps, samples, status, columns, csv,
                   plotted, tests>>

\* One accepted solver step of size hh with result r, followed by the
\* evaluation of the dense output at the sample times the step covers;
\* reaching the end of the span finishes solve_ivp.
Advance(hh, r) ==
    /\ step_accepted(y, r, hh)
    /\ y' = r.y_new
    /\ t' = t + hh
    /\ samples' = sample_step(N, Len(samples) + 1, t, t + hh, y, r.K, samples)
    /\ status' = IF t + hh = t_span_end THEN "success" ELSE status
    /\ pc' = IF t + hh = t_span_end THEN "extract" ELSE pc
    /\ nsteps' = nsteps + 1
    /\ UNCHANGED <<par, y0, N, odes_called, columns, csv, plotted, tests>>

StepOf(hh) == Advance(hh, rk_step(par, y, hh))

\* The proposed step size h is clipped to the end of the span
Step(h) ==
    /\ pc = "stepping"
    /\ nsteps < MaxSteps
    /\ StepOf(Min(h, t_span_end - t))

\* The step fails when even the smallest step produces a non-finite value:
\* solve_ivp returns status -1 with the samples gathered so far.
FailOf(hh) == step_non_finite(rk_step(par, y, hh), hh)

Fail ==
    /\ pc = "stepping"
    /\ FailOf(Min(MinStep, t_span_end - t))
    /\ status' = "failed"
    /\ pc' = "extract"
    /\ UNCHANGED <<par, y0, N, t, y, nsteps, samples, odes_called, columns, csv,
                   plotted, tests>>

Column(i) == [k \in 1..Len(samples) |-> samples[k].y[i]]

\* lines 51-57: solution.t and the rows of solution.y
Extract ==
    /\ pc = "extract"
    /\ columns' = [time |-> [k \in 1..Len(samples) |-> samples[k].time],
                   C_sugar |-> Column(1), C_ethanol |-> Column(2),
                   C_CO2 |-> Column(3), T |-> Column(4), pH |-> Column(5)]
    /\ pc' = "to_csv"
    /\ UNCHANGED <<par, y0, N, t, y, nsteps, samples, status, odes_called, csv,
                   plotted, tests>>

\* lines 59-68
SaveCsv ==
    /\ pc = "to_csv"
    /\ csv' = columns
    /\ pc' = "plot"
    /\ UNCHANGED <<par, y0, N, t, y, nsteps, samples, status, odes_called,
                   columns, plotted, tests>>

\* lines 70-107
Plot ==
    /\ pc = "plot"
    /\ plotted' = TRUE
    /\ pc' = "unittest"
    /\ UNCHANGED <<par, y0, N, t, y, nsteps, samples, status, odes_called,
                   columns, csv, tests>>

NonIncreasing(c) == \A i \in 1..(Len(c) - 1) : c[i] >= c[i + 1]
NonDecreasing(c) == \A i \in 1..(Len(c) - 1) : c[i] <= c[i + 1]
Within(c, lo, hi) == \A i \in 1..Len(c) : lo <= c[i] /\ c[i] <= hi

\* lines 109-133
RunTests ==
    /\ pc = "unittest"
    /\ tests' = [test_sugar_depletion |-> NonIncreasing(columns.C_sugar),
                 test_ethanol_production |-> NonDecreasing(columns.C_ethanol),
                 test_CO2_production |-> NonDecreasing(columns.C_CO2),
                 test_temperature_stability |->
                     Within(columns.T, 20 * TScale, 30 * TScale),
                 test_pH_regulation |-> Within(columns.pH, 4 * PHScale, 7 * PHScale)]
    /\ pc' = "done"
    /\ UNCHANGED <<par, y0, N, t, y, nsteps, samples, status, odes_called,
                   columns, csv, plotted>>

Next ==
    \/ Construct
    \/ \E h \in StepSizes : Step(h)
    \/ Fail
    \/ Extract
    \/ SaveCsv
    \/ Plot
    \/ RunTests

Spec == Init /\ [][Next]_vars

-----------------------------------------------------------------------------
(* Properties                                                                *)

\* Section 7 of the design: the parameters and initial states it calls valid
ValidParameters(p) ==
    /\ p.K_fermentation > 0
    /\ p.m > 0
    /\ p.c_p > 0
    /\ p.buffer_capacity >= 0
    /\ p.Y_ethanol >= 0
    /\ p.Y_CO2 >= 0
ValidState(s) == s[1] >= 0
ValidRun == ValidParameters(par) /\ ValidState(y0)

Sugar(i) == samples[i].y[1]
Ethanol(i) == samples[i].y[2]
CO2(i) == samples[i].y[3]
Temp(i) == samples[i].y[4]
pH(i) == samples[i].y[5]
Pairs == 1..(Len(samples) - 1)
Consumed == pc \in {"to_csv", "plot", "unittest", "done"}

\* C1: in a run with valid parameters and initial sugar >= 0, the sugar
\* concentration never rises from one sample to the next.
C1_SugarNonIncreasing ==
    ValidRun => \A i \in Pairs : Sugar(i) >= Sugar(i + 1)

\* C2: in a valid run whose sugar samples are all >= 0, ethanol and CO2
\* never fall from one sample to the next.
C2_ProductsNonDecreasing ==
    (ValidRun /\ \A i \in 1..Len(samples) : Sugar(i) >= 0)
        => \A i \in Pairs : Ethanol(i) <= Ethanol(i + 1) /\ CO2(i) <= CO2(i + 1)

\* C3: in a valid run starting at a pH in (4, 7], every sample has its pH in
\* [4, 7].
C3_pHInRange ==
    (ValidRun /\ y0[5] > 4 * PHScale /\ y0[5] <= 7 * PHScale)
        => \A i \in 1..Len(samples) : 4 * PHScale <= pH(i) /\ pH(i) <= 7 * PHScale

\* C4: in a valid run the pH never rises from one sample to the next, and
\* once a sample has pH <= 4 every later sample has that same pH.
C4_pHFrozenAtFloor ==
    ValidRun =>
        /\ \A i \in Pairs : pH(i) >= pH(i + 1)
        /\ \A i \in Pairs : pH(i) <= 4 * PHScale => pH(i + 1) = pH(i)

\* The frozen floor does hold at the solver's own step points: a step that
\* starts at pH <= 4 has every stage rate 0.
StepFrozenAtFloor == [][(pc = "stepping" /\ y[5] <= 4 * PHScale) => y'[5] = y[5]]_vars

\* States that differ from the solver's in sugar, ethanol, CO2 and pH
ProbeStates ==
    {<<s, e, e + 7, y[4], ph>> : s \in {0, 10^6}, e \in {0, 10^5},
                                 ph \in {3 * PHScale, 5 * PHScale}}

\* C5: when Q_fermentation = Q_cooling every sample, and the solver's state,
\* has the initial temperature (inside [20, 30] for T_0 = 25), and the
\* temperature rate is the same whatever the sugar, ethanol, CO2 and pH.
C5_TemperatureConstant ==
    /\ par.Q_fermentation = par.Q_cooling =>
          /\ \A i \in 1..Len(samples) : Temp(i) = y0[4]
          /\ y[4] = y0[4]
          /\ y0[4] = T_0 =>
                \A i \in 1..Len(samples) : 20 * TScale <= Temp(i) /\ Temp(i) <= 30 * TScale
          /\ pc = "done" /\ y0[4] = T_0 /\ Len(samples) >= 1 => tests.test_temperature_stability
    /\ ~DivisionByZero(par) =>
          \A v \in ProbeStates : dT_dt(par, v) = dT_dt(par, y)

\* a finished run with balanced heat in which sugar and pH have moved
C5_Witness ==
    /\ pc = "done"
    /\ par.Q_fermentation = par.Q_cooling
    /\ Len(samples) = N
    /\ N >= 3
    /\ Sugar(N) # Sugar(1)
    /\ pH(N) # pH(1)
    /\ Temp(N) = y0[4]

C7_InvalidInputsRejected ==
    ~ValidRun =>
        /\ ~odes_called
        /\ samples = << >>
        /\ pc \in {"construct", "InvalidParameterError", "InvalidStateError"}

SampleGridOnSuccess ==
    /\ \A i \in 1..Len(samples) : samples[i].time = t_eval(N, i)
    /\ \A i \in Pairs : samples[i].time < samples[i + 1].time
    /\ Len(samples) >= 1 => samples[1].time = 0 /\ samples[1].y = y0
    /\ status = "success" => Len(samples) = N /\ samples[N].time = t_span_end

\* The two arguments of max() in the pH rate, at the solver's state
DecayRate == Neg(Mul(y[1], par.K_pH, PDen * (CScale \div PHScale)))
BufferRate == -(par.buffer_capacity * (PHScale \div PDen))

\* C9: the pH rate is 0 when pH <= 4 and otherwise the larger of
\* -K_pH * sugar and -buffer_capacity; for sugar >= 0 (and the non-negative
\* K_pH and buffer_capacity of the data model) it lies in
\* [-buffer_capacity, 0]; it does not depend on ethanol, CO2 or temperature.
C9_pHRate ==
    ~DivisionByZero(par) =>
        LET d == fermentation_odes(par, y)[5]
        IN  /\ y[5] <= 4 * PHScale => d = 0
            /\ y[5] > 4 * PHScale =>
                  d >= DecayRate /\ d >= BufferRate /\ d \in {DecayRate, BufferRate}
            /\ (y[1] >= 0 /\ par.K_pH >= 0 /\ par.buffer_capacity >= 0) =>
                  BufferRate <= d /\ d <= 0
            /\ \A e \in {0, 10^5}, T \in {0, 30 * TScale} :
                  fermentation_odes(par, <<y[1], e, e + 7, T, y[5]>>)[5] = d

\* the solver has stepped to the floor with sugar left: the rate is frozen
C9_Witness ==
    /\ nsteps >= 1
    /\ y[1] > 0
    /\ y[5] <= 4 * PHScale
    /\ y0[5] > 4 * PHScale
    /\ par.K_pH > 0

\* The sugar consumed so far, and how far a product is from its share of it
Consumption == y0[1] - y[1]
Defect(i, Y) == Abs((y[i] - y0[i]) - Mul(Consumption, Y, PDen))

\* Rounding allowance of the mass balance after t seconds of integration, in
\* units of 1/CScale mol/L: the products' rates are rounded separately from
\* the sugar's in every stage of every step.
Rounding == 2 * t

\* C10 as stated: at every step ethanol - ethanol0 = Y_ethanol * (sugar0 -
\* sugar) and CO2 - CO2_0 = Y_CO2 * (sugar0 - sugar) exactly; with
\* Y_ethanol + Y_CO2 = 1 the total is constant; the products never exceed
\* Y_ethanol * sugar0 and Y_CO2 * sugar0.
C10_MassBalanceExact ==
    ValidRun =>
        /\ y[2] - y0[2] = Mul(Consumption, par.Y_ethanol, PDen)
        /\ y[3] - y0[3] = Mul(Consumption, par.Y_CO2, PDen)
        /\ par.Y_ethanol + par.Y_CO2 = PDen => y[1] + y[2] + y[3] = y0[1] + y0[2] + y0[3]
        /\ y[2] <= Mul(y0[1], par.Y_ethanol, PDen)
        /\ y[3] <= Mul(y0[1], par.Y_CO2, PDen)

\* C10 amended: the same mass balance at every step up to the rounding of
\* the arithmetic; the equalities hold exactly only at t = 0.
C10_MassBalanceRounded ==
    ValidRun =>
        /\ Defect(2, par.Y_ethanol) <= Rounding
        /\ Defect(3, par.Y_CO2) <= Rounding
        /\ par.Y_ethanol + par.Y_CO2 = PDen =>
              Abs((y[1] + y[2] + y[3]) - (y0[1] + y0[2] + y0[3])) <= 2 * Rounding
        /\ y[2] <= Mul(y0[1], par.Y_ethanol, PDen) + 2 * Rounding
        /\ y[3] <= Mul(y0[1], par.Y_CO2, PDen) + 2 * Rounding

\* most of a large sugar charge consumed with unequal yields, the balance
\* off by rounding only
C10_Witness ==
    /\ ValidRun
    /\ nsteps >= 2
    /\ par.Y_ethanol # par.Y_CO2
    /\ Consumption > 10^7
    /\ Defect(2, par.Y_ethanol) > 0
    /\ Defect(2, par.Y_ethanol) <= Rounding

\* A step of the smallest size is accepted unless it leaves the number range
MinStepPossible ==
    (pc = "stepping" /\ t < t_span_end) =>
        LET r == rk_step(par, y, MinStep)
        IN  step_non_finite(r, MinStep) \/ step_accepted(y, r, MinStep)

\* The only runs that fail are those whose temperature leaves the range
FailedOnlyWhenHeating ==
    status = "failed" =>
        /\ Len(samples) >= 1
        /\ par.Q_fermentation > par.Q_cooling
        /\ y0 = HotY0

====
